---- MODULE Spec2Model ----
(***************************************************************************)
(* State-machine model of the Yew single-page client in                    *)
(* src/small_interface/src/main.rs: the App component's state cells, its   *)
(* event handlers and the asynchronous task on_submit spawns for every     *)
(* accepted submission.                                                    *)
(*                                                                         *)
(* A state handle dereferences to the value the cell had at the last       *)
(* render; a render happens after every handler and every task step, so a  *)
(* handler reads the unprimed variables, also after it has called set().   *)
(***************************************************************************)
EXTENDS Integers, Sequences, FiniteSets, TLC

VARIABLES query, answer, is_loading, error_message, show_about,
          show_contacts, use_openai, top_k, last_backend, tasks

vars == <<query, answer, is_loading, error_message, show_about,
          show_contacts, use_openai, top_k, last_backend, tasks>>

form_vars == <<query, show_about, show_contacts, use_openai, top_k>>

(***************************************************************************)
(* Bounds of the model.                                                    *)
(***************************************************************************)
\* Runs of equal characters in a text typed into the query input.
MaxSegs == 2
\* Characters in the value string a depth-control event delivers.
MaxValueLen == 2
\* Tasks spawned and not yet finished.
MaxTasks == 2

(***************************************************************************)
(* Program constants.                                                      *)
(***************************************************************************)
MaxQueryLen == 500
TopKMin == 1
TopKMax == 20
TopKInit == 5

\* Option<T>
None == <<>>
Some(x) == <<x>>

(***************************************************************************)
(* Texts.  A String is kept run-length encoded: a sequence of runs         *)
(* [c |-> code point, n |-> number of repetitions], adjacent runs holding  *)
(* different code points.  The code looks at a query only through trim()   *)
(* and len().                                                              *)
(***************************************************************************)
\* char::is_whitespace (the White_Space code points below U+0100)
IsWhitespace(c) == c \in {9, 10, 11, 12, 13, 32, 133, 160}

\* U+0020 SPACE, U+0061 'a', U+00E9 'e' with acute accent
Chars == {32, 97, 233}
RunLens == {1, MaxQueryLen}

\* A run of blanks is kept to one blank: trim() drops a leading or trailing
\* run of blanks whatever its length.
Runs == {r \in [c : Chars, n : RunLens] : IsWhitespace(r.c) => r.n = 1}

Texts ==
    {t \in UNION {[1..k -> Runs] : k \in 0..MaxSegs} :
        \A i \in 1..(Len(t) - 1) : t[i].c # t[i + 1].c}

\* Bytes of the UTF-8 encoding of one code point
Utf8Len(c) ==
    IF c < 128 THEN 1 ELSE IF c < 2048 THEN 2 ELSE IF c < 65536 THEN 3 ELSE 4

RECURSIVE TrimStart(_)
TrimStart(t) ==
    IF t = <<>> THEN <<>>
    ELSE IF IsWhitespace(Head(t).c) THEN TrimStart(Tail(t))
    ELSE t

RECURSIVE TrimEnd(_)
TrimEnd(t) ==
    IF t = <<>> THEN <<>>
    ELSE IF IsWhitespace(t[Len(t)].c) THEN TrimEnd(SubSeq(t, 1, Len(t) - 1))
    ELSE t

\* Mutant of Trim: the draft is used as typed.
Trim_Untrimmed(t) == t

\* str::trim
Trim(t) == TrimEnd(TrimStart(t))

\* String::len: the length in bytes
RECURSIVE StrLen(_)
StrLen(t) ==
    IF t = <<>> THEN 0
    ELSE Head(t).n * Utf8Len(Head(t).c) + StrLen(Tail(t))

\* String::is_empty
IsEmpty(t) == StrLen(t) = 0

(***************************************************************************)
(* The value string of the depth control and str::parse::<u32>.            *)
(***************************************************************************)
ValueChars == {"2", "x"}

ValueStrings == UNION {[1..k -> ValueChars] : k \in 0..MaxValueLen}

DigitOf ==
    ("0" :> 0) @@ ("1" :> 1) @@ ("2" :> 2) @@ ("3" :> 3) @@ ("4" :> 4) @@
    ("5" :> 5) @@ ("6" :> 6) @@ ("7" :> 7) @@ ("8" :> 8) @@ ("9" :> 9)

RECURSIVE DigitsValue(_, _)
DigitsValue(s, acc) ==
    IF s = <<>> THEN acc
    ELSE DigitsValue(Tail(s), 10 * acc + DigitOf[Head(s)])

\* None for Err(_), Some(v) for Ok(v).  A value string of the model is too
\* short to overflow a u32, so the overflow error does not arise.
ParseU32(s) ==
    LET digits == IF s # <<>> /\ Head(s) = "+" THEN Tail(s) ELSE s
    IN  IF digits = <<>> THEN None
        ELSE IF \E i \in 1..Len(digits) : digits[i] \notin DOMAIN DigitOf
        THEN None
        ELSE Some(DigitsValue(digits, 0))

(***************************************************************************)
(* Texts shown to the user.                                                *)
(***************************************************************************)
PlaceholderAnswer == "Your answer will appear here."
GeneratingAnswer == "Generating answer..."
ParseErrorAnswer == "Error parsing response."
FailedAnswer == "Failed to generate answer."
ServerErrorAnswer == "Server error."
ConnectionErrorAnswer == "Error connecting to the API."
NoBackend == "None"

EmptyQueryMsg == "Please enter a query."
TooLongMsg == "Query is too long (max 500 characters)."
ParseErrorMsg(e) == "Failed to parse response: " \o e
\* Mutant of ErrorWithDetailsMsg: the details are dropped.
ErrorWithDetailsMsg_NoDetails(error, details) == error
ErrorWithDetailsMsg(error, details) == error \o ": " \o details
ServerErrorMsg(status_text, e) == "Server error (" \o status_text \o "): " \o e
ConnectionErrorMsg(e) ==
    "Connection error: " \o e \o ". Make sure the API server is running."

(***************************************************************************)
(* The transport and the server, as the client sees them.                  *)
(***************************************************************************)
Statuses == {200, 500}

\* StatusCode::is_success
IsSuccess(status) == status >= 200 /\ status < 300

\* Display for StatusCode
StatusText(status) ==
    CASE status = 200 -> "200 OK"
      [] status = 500 -> "500 Internal Server Error"

\* Display of the reqwest::Error of a failed send() and of a failed json()
TransportErrors == {"error sending request"}
DecodeErrors == {"error decoding response body"}

Answers == {"42", "1945"}
Backends == {"local", "openai"}

\* Response bodies: JSON objects as functions from member names to strings;
\* <<>> is a body that is no JSON object.
Bodies ==
    {[status |-> "ok", query |-> "q", answer |-> a, backend |-> b] :
        a \in Answers, b \in Backends}
    \cup {[status |-> "ok", query |-> "q", answer |-> a] : a \in Answers}
    \cup {[status |-> "error", error |-> "timeout", details |-> "model busy"],
          [status |-> "error", error |-> "timeout"],
          [status |-> "ok"],
          <<>>}

\* serde: Deserialize for ApiResponse (status, query, answer are required)
ParseApiResponse(body) ==
    IF {"status", "query", "answer"} \subseteq DOMAIN body
    THEN Some([answer |-> body.answer,
               backend |-> IF "backend" \in DOMAIN body
                           THEN Some(body.backend) ELSE None])
    ELSE None

\* serde: Deserialize for ErrorResponse (status, error are required)
ParseErrorResponse(body) ==
    IF {"status", "error"} \subseteq DOMAIN body
    THEN Some([error |-> body.error,
               details |-> IF "details" \in DOMAIN body
                           THEN Some(body.details) ELSE None])
    ELSE None

(***************************************************************************)
(* Init: the state cells as use_state creates them.                        *)
(***************************************************************************)
Init ==
    /\ query = <<>>
    /\ answer = PlaceholderAnswer
    /\ is_loading = FALSE
    /\ error_message = None
    /\ show_about = FALSE
    /\ show_contacts = FALSE
    /\ use_openai = FALSE
    /\ top_k = TopKInit
    /\ last_backend = NoBackend
    /\ tasks = <<>>

(***************************************************************************)
(* The rendered form: which controls take user events.                     *)
(***************************************************************************)
\* Mutant of SubmitDisabled: the button is never disabled.
SubmitDisabled_Never == FALSE

\* disabled={*is_loading} of the query input, the depth slider, the button
QueryInputDisabled == is_loading
TopKDisabled == is_loading
SubmitDisabled == is_loading

\* A task spawn_local has queued runs (to its first await) before the
\* browser delivers the next event.
MicrotaskPending == \E i \in 1..Len(tasks) : tasks[i].pc = "spawned"

(***************************************************************************)
(* Event handlers.                                                         *)
(***************************************************************************)
toggle_backend(checked) ==
    /\ ~MicrotaskPending
    /\ use_openai' = checked
    /\ UNCHANGED <<query, answer, is_loading, error_message, show_about,
                   show_contacts, top_k, last_backend, tasks>>

\* Mutant of on_input: typing also resets the answer area.
on_input_ResetsAnswer(value) ==
    /\ ~MicrotaskPending
    /\ ~QueryInputDisabled
    /\ query' = value
    /\ error_message' = None
    /\ answer' = PlaceholderAnswer
    /\ UNCHANGED <<is_loading, show_about, show_contacts, use_openai,
                   top_k, last_backend, tasks>>

\* Mutant of on_input: a text over the limit is not taken.
on_input_IgnoresLong(value) ==
    /\ ~MicrotaskPending
    /\ ~QueryInputDisabled
    /\ query' = IF StrLen(value) > MaxQueryLen THEN query ELSE value
    /\ error_message' = None
    /\ UNCHANGED <<answer, is_loading, show_about, show_contacts, use_openai,
                   top_k, last_backend, tasks>>

on_input(value) ==
    /\ ~MicrotaskPending
    /\ ~QueryInputDisabled
    /\ query' = value
    /\ error_message' = IF error_message # None THEN None ELSE error_message
    /\ UNCHANGED <<answer, is_loading, show_about, show_contacts, use_openai,
                   top_k, last_backend, tasks>>

on_top_k_change(value) ==
    /\ ~MicrotaskPending
    /\ ~TopKDisabled
    /\ top_k' = IF ParseU32(value) # None THEN ParseU32(value)[1] ELSE top_k
    /\ UNCHANGED <<query, answer, is_loading, error_message, show_about,
                   show_contacts, use_openai, last_backend, tasks>>

\* Mutant of QueryRequest: the backend flag is not passed on.
QueryRequest_LocalOnly(query_value, top_k_value, use_openai_value) ==
    [query |-> query_value, top_k |-> top_k_value, use_openai |-> FALSE]

\* The QueryRequest the spawned task posts, from the values on_submit captured
QueryRequest(query_value, top_k_value, use_openai_value) ==
    [query |-> query_value, top_k |-> top_k_value, use_openai |-> use_openai_value]

\* Mutant of QueryTooLong: the limit with a digit too many.
QueryTooLong_WrongLimit(query_value) == StrLen(query_value) > 10 * MaxQueryLen

\* The two validation tests of on_submit
QueryIsEmpty(query_value) == IsEmpty(query_value)
QueryTooLong(query_value) == StrLen(query_value) > MaxQueryLen

\* Mutant of SpawnedTask: the payload takes the draft, not the trimmed copy.
SpawnedTask_RawDraft(query_value) ==
    [payload |-> [query |-> query, top_k |-> top_k, use_openai |-> use_openai],
     pc |-> "spawned", status |-> 0]

\* The future on_submit hands to spawn_local
SpawnedTask(query_value) ==
    [payload |-> QueryRequest(query_value, top_k, use_openai),
     pc |-> "spawned", status |-> 0]

\* Mutant of on_submit: a rejected submission also resets the answer.
on_submit_RejectResetsAnswer ==
    /\ ~MicrotaskPending
    /\ ~SubmitDisabled
    /\ LET query_value == Trim(query)
       IN  IF QueryIsEmpty(query_value) \/ QueryTooLong(query_value)
           THEN /\ error_message' =
                       Some(IF QueryIsEmpty(query_value)
                            THEN EmptyQueryMsg ELSE TooLongMsg)
                /\ answer' = PlaceholderAnswer
                /\ UNCHANGED <<is_loading, last_backend, tasks>>
           ELSE /\ Len(tasks) < MaxTasks
                /\ error_message' = None
                /\ is_loading' = TRUE
                /\ answer' = GeneratingAnswer
                /\ tasks' = Append(tasks, SpawnedTask(query_value))
                /\ UNCHANGED last_backend
    /\ UNCHANGED form_vars

on_submit ==
    /\ ~MicrotaskPending
    /\ ~SubmitDisabled
    /\ LET query_value == Trim(query)
       IN  IF QueryIsEmpty(query_value)
           THEN /\ error_message' = Some(EmptyQueryMsg)
                /\ UNCHANGED <<answer, is_loading, last_backend, tasks>>
           ELSE IF QueryTooLong(query_value)
           THEN /\ error_message' = Some(TooLongMsg)
                /\ UNCHANGED <<answer, is_loading, last_backend, tasks>>
           ELSE /\ Len(tasks) < MaxTasks
                /\ error_message' = None
                /\ is_loading' = TRUE
                /\ answer' = GeneratingAnswer
                /\ tasks' = Append(tasks, SpawnedTask(query_value))
                /\ UNCHANGED last_backend
    /\ UNCHANGED form_vars

\* The value show_about dereferences to after show_about.set(..): the handle
\* still holds the value of the last render.
AboutAfterSet == show_about
ContactsAfterSet == show_contacts

\* Mutant of on_about_click: closing the panel opens the other one.
on_about_click_Swaps ==
    /\ ~MicrotaskPending
    /\ show_about' = ~show_about
    /\ show_contacts' = IF AboutAfterSet THEN TRUE ELSE show_contacts
    /\ UNCHANGED <<query, answer, is_loading, error_message, use_openai,
                   top_k, last_backend, tasks>>

on_about_click ==
    /\ ~MicrotaskPending
    /\ show_about' = ~show_about
    /\ show_contacts' = IF AboutAfterSet THEN FALSE ELSE show_contacts
    /\ UNCHANGED <<query, answer, is_loading, error_message, use_openai,
                   top_k, last_backend, tasks>>

on_contacts_click ==
    /\ ~MicrotaskPending
    /\ show_contacts' = ~show_contacts
    /\ show_about' = IF ContactsAfterSet THEN FALSE ELSE show_about
    /\ UNCHANGED <<query, answer, is_loading, error_message, use_openai,
                   top_k, last_backend, tasks>>

(***************************************************************************)
(* The spawned task: post, await the response, await its body, classify.   *)
(***************************************************************************)
RemoveAt(s, i) == SubSeq(s, 1, i - 1) \o SubSeq(s, i + 1, Len(s))

\* Mutant of TaskEnd: the loading flag is not reset.
TaskEnd_KeepsLoading(i) ==
    /\ is_loading' = is_loading
    /\ tasks' = RemoveAt(tasks, i)

\* The end of the async block: is_loading.set(false), and the task is gone
TaskEnd(i) ==
    /\ is_loading' = FALSE
    /\ tasks' = RemoveAt(tasks, i)

\* First poll: the payload is built and the POST is handed to the transport
task_send(i) ==
    /\ tasks[i].pc = "spawned"
    /\ tasks' = [tasks EXCEPT ![i].pc = "send"]
    /\ UNCHANGED <<answer, is_loading, error_message, last_backend>>
    /\ UNCHANGED form_vars

\* Mutant of task_transport_error: the failure is swallowed.
task_transport_error_Silent(i, e) ==
    /\ tasks[i].pc = "send"
    /\ answer' = ConnectionErrorAnswer
    /\ TaskEnd(i)
    /\ UNCHANGED <<error_message, last_backend>>
    /\ UNCHANGED form_vars

\* send().await is Err(e): no response reached the client
task_transport_error(i, e) ==
    /\ tasks[i].pc = "send"
    /\ error_message' = Some(ConnectionErrorMsg(e))
    /\ answer' = ConnectionErrorAnswer
    /\ TaskEnd(i)
    /\ UNCHANGED last_backend
    /\ UNCHANGED form_vars

\* send().await is Ok(res): the status is read, the body is awaited
task_response(i, status) ==
    /\ tasks[i].pc = "send"
    /\ tasks' = [tasks EXCEPT ![i].pc = "json", ![i].status = status]
    /\ UNCHANGED <<answer, is_loading, error_message, last_backend>>
    /\ UNCHANGED form_vars

\* Mutant of BackendLabel: a body without a backend resets the label.
BackendLabel_Unknown(backend) == IF backend # None THEN backend[1] ELSE "unknown"

\* The label kept after a parsed success body
BackendLabel(backend) == IF backend # None THEN backend[1] ELSE last_backend

\* res.json::<ApiResponse>().await after a success status
task_success_body(i, body, e) ==
    /\ tasks[i].pc = "json"
    /\ IsSuccess(tasks[i].status)
    /\ LET parsed == ParseApiResponse(body)
       IN  IF parsed # None
           THEN /\ answer' = parsed[1].answer
                /\ last_backend' = BackendLabel(parsed[1].backend)
                /\ error_message' = None
           ELSE /\ error_message' = Some(ParseErrorMsg(e))
                /\ answer' = ParseErrorAnswer
                /\ UNCHANGED last_backend
    /\ TaskEnd(i)
    /\ UNCHANGED form_vars

\* res.json::<ErrorResponse>().await after a non-success status
task_error_body(i, body, e) ==
    /\ tasks[i].pc = "json"
    /\ ~IsSuccess(tasks[i].status)
    /\ LET parsed == ParseErrorResponse(body)
       IN  IF parsed # None
           THEN /\ error_message' =
                       Some(IF parsed[1].details # None
                            THEN ErrorWithDetailsMsg(parsed[1].error,
                                                     parsed[1].details[1])
                            ELSE parsed[1].error)
                /\ answer' = FailedAnswer
           ELSE /\ error_message' =
                       Some(ServerErrorMsg(StatusText(tasks[i].status), e))
                /\ answer' = ServerErrorAnswer
    /\ TaskEnd(i)
    /\ UNCHANGED last_backend
    /\ UNCHANGED form_vars

(***************************************************************************)
(* The specification.                                                      *)
(***************************************************************************)
Next ==
    \/ \E checked \in BOOLEAN : toggle_backend(checked)
    \/ \E value \in Texts : on_input(value)
    \/ \E value \in ValueStrings : on_top_k_change(value)
    \/ on_submit
    \/ on_about_click
    \/ on_contacts_click
    \/ \E i \in 1..Len(tasks) : task_send(i)
    \/ \E i \in 1..Len(tasks), e \in TransportErrors : task_transport_error(i, e)
    \/ \E i \in 1..Len(tasks), status \in Statuses : task_response(i, status)
    \/ \E i \in 1..Len(tasks), body \in Bodies, e \in DecodeErrors :
           task_success_body(i, body, e)
    \/ \E i \in 1..Len(tasks), body \in Bodies, e \in DecodeErrors :
           task_error_body(i, body, e)

Spec == Init /\ [][Next]_vars

\* A step of a spawned task
TaskStep ==
    \E i \in 1..Len(tasks) :
        \/ task_send(i)
        \/ \E e \in TransportErrors : task_transport_error(i, e)
        \/ \E status \in Statuses : task_response(i, status)
        \/ \E body \in Bodies, e \in DecodeErrors : task_success_body(i, body, e)
        \/ \E body \in Bodies, e \in DecodeErrors : task_error_body(i, body, e)

\* The executor polls a queued task, and the transport settles every
\* send() and every json() it was given, with a response or a failure.
SpecFair == Spec /\ WF_vars(TaskStep)

(***************************************************************************)
(* Vocabulary of the properties.                                           *)
(***************************************************************************)
\* The number of characters of a text
RECURSIVE CharCount(_)
CharCount(t) ==
    IF t = <<>> THEN 0 ELSE Head(t).n + CharCount(Tail(t))

AllWhitespace(t) == \A i \in 1..Len(t) : IsWhitespace(t[i].c)

FailureAnswers ==
    {ParseErrorAnswer, FailedAnswer, ServerErrorAnswer, ConnectionErrorAnswer}

ValidationMessages == {Some(EmptyQueryMsg), Some(TooLongMsg)}

\* The terminal outcomes of a request, as the cells show them
IsSuccessState == ~is_loading /\ error_message = None /\ answer \in Answers
IsFailedState ==
    /\ ~is_loading
    /\ error_message # None
    /\ error_message \notin ValidationMessages
    /\ answer \in FailureAnswers

\* Requests handed to the transport and not yet resolved
InFlight == {i \in 1..Len(tasks) : tasks[i].pc \in {"send", "json"}}

\* Steps of the submission pipeline, told by what they do to the tasks
Accepted == Len(tasks') = Len(tasks) + 1
Dispatched ==
    \E i \in 1..Len(tasks) :
        /\ Len(tasks') = Len(tasks)
        /\ tasks[i].pc = "spawned"
        /\ tasks'[i].pc = "send"
Resolved == Len(tasks') = Len(tasks) - 1

(***************************************************************************)
(* C1: a submit of an empty or all-whitespace draft surfaces the           *)
(* empty-query validation message and spawns no task, so no request is     *)
(* sent for it, whatever the state the submit is made in.                  *)
(***************************************************************************)
C1_EmptyRejected ==
    [][(on_submit /\ AllWhitespace(query)) =>
          (error_message' = Some(EmptyQueryMsg) /\ tasks' = tasks)]_vars

\* A whitespace-only draft has been submitted and rejected.
C1_Witness ==
    /\ query # <<>>
    /\ AllWhitespace(query)
    /\ error_message = Some(EmptyQueryMsg)
    /\ tasks = <<>>

(***************************************************************************)
(* C2: a submit of a draft that has more than 500 characters after         *)
(* trimming surfaces the too-long validation message and spawns no task.   *)
(***************************************************************************)
C2_TooLongRejected ==
    [][(on_submit /\ CharCount(TrimEnd(TrimStart(query))) > MaxQueryLen) =>
          (error_message' = Some(TooLongMsg) /\ tasks' = tasks)]_vars

\* A draft of more than 500 characters has been submitted and rejected.
C2_Witness ==
    /\ CharCount(TrimEnd(TrimStart(query))) > MaxQueryLen
    /\ error_message = Some(TooLongMsg)
    /\ tasks = <<>>

(***************************************************************************)
(* C3: an accepted submit takes the state from Idle, Failed or Success to  *)
(* Loading; the request is dispatched with Loading set; a request          *)
(* resolves from Loading to exactly one of Success and Failed, and         *)
(* Loading is not set in the state right after.                            *)
(***************************************************************************)
C3_LoadingThenOutcome ==
    [][/\ Accepted => (~is_loading /\ is_loading' /\ answer' = GeneratingAnswer)
       /\ Dispatched => (is_loading /\ is_loading')
       /\ Resolved =>
             /\ is_loading
             /\ ~is_loading'
             /\ IsSuccessState' # IsFailedState']_vars

\* A request has gone through Loading to Success.
C3_Witness == tasks = <<>> /\ IsSuccessState

(***************************************************************************)
(* C4: an accepted submit spawns exactly one task, whose payload is the    *)
(* trimmed draft, the depth and the backend selection of that moment; the  *)
(* task is sent before any other event is handled, is never sent again,    *)
(* and no later step changes its payload or adds a request.                *)
(***************************************************************************)
C4_OnePostWithSnapshot ==
    [][/\ Len(tasks') <= Len(tasks) + 1
       /\ Accepted =>
             /\ on_submit
             /\ SubSeq(tasks', 1, Len(tasks)) = tasks
             /\ tasks'[Len(tasks')].pc = "spawned"
             /\ tasks'[Len(tasks')].payload =
                    [query |-> TrimEnd(TrimStart(query)), top_k |-> top_k,
                     use_openai |-> use_openai]
       /\ MicrotaskPending => Dispatched
       /\ Len(tasks') = Len(tasks) =>
             \A i \in 1..Len(tasks) :
                /\ tasks'[i].payload = tasks[i].payload
                /\ tasks'[i].pc = "spawned" => tasks[i].pc = "spawned"
                /\ tasks'[i].pc = "send" => tasks[i].pc \in {"spawned", "send"}
       /\ Len(tasks') < Len(tasks) =>
             \E i \in 1..Len(tasks) : tasks' = RemoveAt(tasks, i)]_vars

\* A request is in flight with a payload that differs from the form: the
\* backend was switched, or the draft had blanks around it.
C4_Witness ==
    \E i \in InFlight :
        /\ tasks[i].payload.use_openai # use_openai
        /\ tasks[i].payload.query # query

(***************************************************************************)
(* C5, as claimed: while a request is in flight and the draft is valid, a  *)
(* second submission can be made and starts a second request.              *)
(***************************************************************************)
DraftIsValid ==
    /\ ~AllWhitespace(query)
    /\ StrLen(TrimEnd(TrimStart(query))) <= MaxQueryLen

C5_SecondSubmissionRaces == (InFlight # {} /\ DraftIsValid) => ENABLED on_submit

(***************************************************************************)
(* C5, amended: the submit button is disabled while the loading flag is    *)
(* set, so no submission can be made while a request is outstanding, and   *)
(* at most one request is outstanding at any time.                         *)
(***************************************************************************)
C5_OneRequestAtATime ==
    /\ Len(tasks) <= 1
    /\ tasks # <<>> => ~ENABLED on_submit

\* A request is in flight, the draft is valid, and submit cannot be made.
C5_Witness == InFlight # {} /\ DraftIsValid /\ ~ENABLED on_submit

(***************************************************************************)
(* C6: whenever a dispatched request has not yet resolved, the loading     *)
(* flag is set.                                                            *)
(***************************************************************************)
C6_LoadingWhileInFlight == InFlight # {} => is_loading

\* The response of a request has arrived, its body has not: still loading.
C6_Witness == \E i \in InFlight : tasks[i].pc = "json" /\ is_loading

(***************************************************************************)
(* C7, as claimed: the loading flag and an error message are never set     *)
(* together, and an error message is never displayed together with a       *)
(* successfully generated answer.                                          *)
(***************************************************************************)
C7_OneVariant ==
    /\ ~(is_loading /\ error_message # None)
    /\ ~(error_message # None /\ answer \in Answers)

(***************************************************************************)
(* C7, amended: the loading flag and an error message are never set        *)
(* together, and the only error message displayed together with a          *)
(* successfully generated answer is a validation message (empty query,     *)
(* query too long) of a later rejected submission.                         *)
(***************************************************************************)
C7_OneVariantButValidation ==
    /\ ~(is_loading /\ error_message # None)
    /\ (error_message # None /\ answer \in Answers) =>
           error_message \in ValidationMessages

\* A rejected submission after a success: its message beside the answer.
C7_Witness == error_message \in ValidationMessages /\ answer \in Answers

(***************************************************************************)
(* C8, as claimed: the about panel and the contacts panel are never both   *)
(* open.                                                                   *)
(***************************************************************************)
C8_NeverBothOpen == ~(show_about /\ show_contacts)

(***************************************************************************)
(* C9, as claimed: the retrieval depth is within [1,20] in every state,    *)
(* because a depth event whose value is an integer outside [1,20] leaves   *)
(* the depth as it was.                                                    *)
(***************************************************************************)
C9_DepthInRange == top_k \in TopKMin..TopKMax

(***************************************************************************)
(* C10, as claimed: a success response with a parseable body sets the      *)
(* answer to the body's answer and the label to the body's backend, or to  *)
(* "unknown" when the body has none; an unparseable body gives a           *)
(* failed-to-parse error.                                                  *)
(***************************************************************************)
C10_SuccessLabel ==
    [][\A i \in 1..Len(tasks), body \in Bodies, e \in DecodeErrors :
          task_success_body(i, body, e) =>
              IF ParseApiResponse(body) # None
              THEN /\ answer' = body.answer
                   /\ error_message' = None
                   /\ last_backend' = IF "backend" \in DOMAIN body
                                      THEN body.backend ELSE "unknown"
              ELSE /\ error_message' = Some(ParseErrorMsg(e))
                   /\ answer' = ParseErrorAnswer]_vars

(***************************************************************************)
(* C11: a response with a non-success status ends in Failed: the message   *)
(* is "<error>: <details>" when the error body parses and has details,     *)
(* "<error>" when it parses without details, and a server-error message    *)
(* that names the status when it does not parse; it never ends in Success. *)
(***************************************************************************)
C11_ErrorResponseFails ==
    [][\A i \in 1..Len(tasks), body \in Bodies, e \in DecodeErrors :
          task_error_body(i, body, e) =>
              /\ IsFailedState'
              /\ ~IsSuccessState'
              /\ error_message' =
                    IF {"status", "error"} \subseteq DOMAIN body
                    THEN IF "details" \in DOMAIN body
                         THEN Some(body.error \o ": " \o body.details)
                         ELSE Some(body.error)
                    ELSE Some("Server error (500 Internal Server Error): " \o e)]_vars

\* The 500 response {error: "timeout", details: "model busy"} has resolved.
C11_Witness ==
    /\ tasks = <<>>
    /\ answer = FailedAnswer
    /\ error_message = Some("timeout: model busy")

(***************************************************************************)
(* C12: a request that ends in a transport failure ends in Failed with a   *)
(* connection-error message, whatever the backend selection and the        *)
(* retrieval depth.                                                        *)
(***************************************************************************)
C12_TransportFailureFails ==
    [][\A i \in 1..Len(tasks), e \in TransportErrors :
          task_transport_error(i, e) =>
              /\ IsFailedState'
              /\ answer' = ConnectionErrorAnswer
              /\ error_message' =
                    Some("Connection error: " \o e
                         \o ". Make sure the API server is running.")]_vars

\* A transport failure with the remote backend and a depth other than 5.
C12_Witness ==
    /\ tasks = <<>>
    /\ answer = ConnectionErrorAnswer
    /\ error_message # None
    /\ use_openai
    /\ top_k # TopKInit

(***************************************************************************)
(* C13: a submission rejected by validation changes nothing but the        *)
(* displayed error: the answer, the loading flag, the backend label, the   *)
(* draft, the depth, the backend selection and both panel flags stay.      *)
(***************************************************************************)
C13_RejectionFrame ==
    [][(on_submit /\ (AllWhitespace(query)
                      \/ StrLen(TrimEnd(TrimStart(query))) > MaxQueryLen)) =>
          /\ error_message' \in ValidationMessages
          /\ UNCHANGED <<answer, is_loading, last_backend, query, top_k,
                         use_openai, show_about, show_contacts, tasks>>]_vars

\* A rejection after a success with a label, with a panel open.
C13_Witness ==
    /\ error_message = Some(TooLongMsg)
    /\ answer \in Answers
    /\ last_backend \in Backends
    /\ show_about

(***************************************************************************)
(* C14: with a transport that settles every request, every request that    *)
(* was spawned reaches exactly one of Success and Failed; when no request  *)
(* is outstanding the loading flag is clear, and it stays clear until the  *)
(* next accepted submission.                                               *)
(***************************************************************************)
C14_EveryRequestSettles ==
    /\ (tasks # <<>>) ~>
           (tasks = <<>> /\ ~is_loading /\ (IsSuccessState # IsFailedState))
    /\ [](tasks = <<>> => ~is_loading)
    /\ [][(tasks = <<>> /\ ~Accepted) => ~is_loading']_vars

\* A request whose error body did not parse has settled in Failed.
C14_Witness == tasks = <<>> /\ IsFailedState /\ answer = ServerErrorAnswer

(***************************************************************************)
(* C15, as claimed: a step that is neither a submit nor a step of a        *)
(* request (an edit of the draft, a depth or backend event, a panel        *)
(* toggle) does not change which AnswerState variant is active, so a       *)
(* Failed outcome stays Failed, with its message, until the next submit.   *)
(***************************************************************************)
FormEvent == tasks' = tasks /\ ~on_submit

C15_OnlySubmitChangesAnswerState ==
    [][FormEvent =>
          /\ UNCHANGED <<answer, is_loading, last_backend>>
          /\ IsFailedState => IsFailedState']_vars

(***************************************************************************)
(* C15, amended: such a step changes neither the answer text, nor the      *)
(* loading flag, nor the backend label; the depth, backend and panel       *)
(* events leave the error message too, but an edit of the draft clears     *)
(* it, so after a Failed outcome the failure text stays until the next     *)
(* submission while its message is gone with the first edit.               *)
(***************************************************************************)
C15_OnlyEditClearsMessage ==
    [][FormEvent =>
          /\ UNCHANGED <<answer, is_loading, last_backend>>
          /\ error_message' # error_message =>
                /\ error_message' = None
                /\ on_input(query')
          /\ on_input(query') => error_message' = None]_vars

\* A Failed outcome whose message an edit has cleared.
C15_Witness ==
    /\ tasks = <<>>
    /\ ~is_loading
    /\ answer \in FailureAnswers
    /\ error_message = None

(***************************************************************************)
(* C16: while the query input takes events, every text, whatever its      *)
(* length, can be typed and becomes the draft; an edit leaves no error     *)
(* message displayed and changes neither the depth, the backend            *)
(* selection, the panel flags, the answer text nor the loading flag.       *)
(***************************************************************************)
C16_EditFrame ==
    /\ [](~is_loading =>
            \A value \in Texts : ENABLED (on_input(value) /\ query' = value))
    /\ [][on_input(query') =>
             /\ error_message' = None
             /\ UNCHANGED <<top_k, use_openai, show_about, show_contacts,
                            answer, is_loading>>]_vars

\* A draft of more than 500 characters is held beside an earlier answer,
\* with no message displayed.
C16_Witness ==
    /\ CharCount(query) > MaxQueryLen
    /\ error_message = None
    /\ answer \in Answers
    /\ ~is_loading

(***************************************************************************)
(* C17: a click on About while the contacts panel is closed flips the      *)
(* about flag and changes nothing else; a click on Contacts while the      *)
(* about panel is closed flips the contacts flag and changes nothing else. *)
(***************************************************************************)
C17_ToggleFrame ==
    [][/\ (on_about_click /\ ~show_contacts) =>
             /\ show_about' = ~show_about
             /\ UNCHANGED <<show_contacts, query, top_k, use_openai, answer,
                            is_loading, error_message, last_backend, tasks>>
       /\ (on_contacts_click /\ ~show_about) =>
             /\ show_contacts' = ~show_contacts
             /\ UNCHANGED <<show_about, query, top_k, use_openai, answer,
                            is_loading, error_message, last_backend, tasks>>]_vars

\* The about panel has been opened with the contacts panel closed.
C17_Witness == show_about /\ ~show_contacts

(***************************************************************************)
(* C18, as claimed: the limit counts characters: a draft whose trimmed     *)
(* text is not empty and has at most 500 characters is accepted and a      *)
(* request is spawned for it, also when its characters take more than one  *)
(* byte each.                                                              *)
(***************************************************************************)
C18_LimitInCharacters ==
    [][(on_submit /\ ~AllWhitespace(query)
                  /\ CharCount(TrimEnd(TrimStart(query))) <= MaxQueryLen) =>
          (Accepted /\ error_message' = None)]_vars

(***************************************************************************)
(* C19: every request spawned or in flight carries a query that is not     *)
(* empty, has no blank at either end and has at most 500 characters, and   *)
(* the use_openai flag of a request is the backend selection of the state  *)
(* its submit was made in.                                                 *)
(***************************************************************************)
C19_PayloadWellFormed ==
    /\ [](\A i \in 1..Len(tasks) :
            LET q == tasks[i].payload.query
            IN  /\ q # <<>>
                /\ ~IsWhitespace(q[1].c)
                /\ ~IsWhitespace(q[Len(q)].c)
                /\ CharCount(q) <= MaxQueryLen)
    /\ [][Accepted =>
             tasks'[Len(tasks')].payload.use_openai = use_openai]_vars

\* A request for the remote backend with a query of exactly 500 characters.
C19_Witness ==
    \E i \in InFlight :
        /\ tasks[i].payload.use_openai
        /\ CharCount(tasks[i].payload.query) = MaxQueryLen

(***************************************************************************)
(* C20: the backend label changes only when a success response whose body  *)
(* parses and carries a backend resolves, and then to that backend; every  *)
(* other step leaves it, so after a Failed outcome the label of an         *)
(* earlier answer is still held.                                           *)
(***************************************************************************)
C20_LabelFrame ==
    [][last_backend' # last_backend =>
          \E i \in 1..Len(tasks), body \in Bodies, e \in DecodeErrors :
             /\ task_success_body(i, body, e)
             /\ {"status", "query", "answer", "backend"} \subseteq DOMAIN body
             /\ last_backend' = body.backend]_vars

\* A Failed outcome with the label of an earlier answer still held.
C20_Witness == tasks = <<>> /\ IsFailedState /\ last_backend \in Backends

====
